---- MODULE Spec2Model ----
(***************************************************************************)
(* PromptCraft: the generation pipeline and the intent classifier of       *)
(* src/ai_services.py (class PromptEngineer), and the record store and the *)
(* relevance ranking of src/database.py (class PromptDatabase).            *)
(*                                                                         *)
(* Text is a sequence of one-character strings, so that the regular        *)
(* expressions, str.strip, len and json.loads of the source are computed   *)
(* character by character.                                                 *)
(***************************************************************************)
EXTENDS Integers, Sequences, FiniteSets, TLC

VARIABLES
    pc,               \* "idle", "loop" (inside the retry loop), "returned", "raised"
    call,             \* the method being executed, "none" when idle
    user_goal,        \* argument user_goal of the call
    similar_prompts,  \* argument similar_prompts of generate_prompt_variations
    attempt,          \* the loop variable of the retry loop, from 0
    sent,             \* the prompts passed to self.model.generate_content in this call
    outcomes,         \* what each attempt of this call met: "error", or the reply text
    result,           \* what the call handed to its caller
    prompts_table,    \* the rows of table prompts, in the order of their ids
    now,              \* CURRENT_TIMESTAMP of the store, in seconds
    args,             \* the arguments of save_prompt
    top_k,            \* argument top_k of get_similar_prompts
    before,           \* the rows of table prompts when the call began
    session_state,    \* st.session_state of the page
    handler,          \* the button handler that is running, with its locals
    analytics,        \* the rows of table analytics, in the order of their ids
    presses,          \* number of times Generate Prompts or Submit Rating
                      \* was pressed
    stats,            \* what get_stats returned to the sidebar of this run
    generation        \* what the calls of the last generation returned

\* the state of the store and of the calls on it
dbvars == <<prompts_table, now, args, top_k, before>>

\* the state of the page
uivars ==
    <<session_state, handler, analytics, presses, stats, generation>>

vars ==
    <<pc, call, user_goal, similar_prompts, attempt, sent, outcomes, result,
      prompts_table, now, args, top_k, before,
      session_state, handler, analytics, presses, stats, generation>>

----------------------------------------------------------------------------
(* Bounds of the model.                                                    *)

\* number of pieces a generation reply is assembled from
MaxSections == 4

\* number of pieces a classification reply is assembled from
MaxReplyPieces == 2

\* number of rows the table prompts can hold
MaxRows == 2

\* number of times Generate Prompts or Submit Rating is pressed in one
\* session
MaxPresses == 2

----------------------------------------------------------------------------
(* PromptEngineer.__init__                                                 *)

max_retries == 2

----------------------------------------------------------------------------
(* PromptDatabase.__init__                                                 *)

\* self.max_retries of PromptDatabase
db_max_retries == 3

----------------------------------------------------------------------------
(* Python built-ins used by the source.                                    *)

Min(a, b) == IF a < b THEN a ELSE b

\* s[:n]
Take(s, n) == SubSeq(s, 1, Min(n, Len(s)))

\* s[n:]
Drop(s, n) == SubSeq(s, n + 1, Len(s))

\* the characters str.strip and \s take for whitespace
IsSpace(c) == c \in {" ", "\n", "\t"}

\* the characters \d matches
IsDigit(c) == c \in {"0", "1", "2", "3", "4", "5", "6", "7", "8", "9"}

\* the text has the literal lit at index i
HasAt(s, i, lit) ==
    /\ i >= 1
    /\ i + Len(lit) - 1 <= Len(s)
    /\ \A k \in 1..Len(lit) : s[i + k - 1] = lit[k]

RECURSIVE SkipSpaces(_, _)
\* the index after a greedy \s* that starts at i
SkipSpaces(s, i) ==
    IF i <= Len(s) /\ IsSpace(s[i]) THEN SkipSpaces(s, i + 1) ELSE i

RECURSIVE SkipDigits(_, _)
\* the index after a greedy \d* that starts at i
SkipDigits(s, i) ==
    IF i <= Len(s) /\ IsDigit(s[i]) THEN SkipDigits(s, i + 1) ELSE i

RECURSIVE LastNonSpace(_, _)
\* the index of the last non-whitespace character at or before i, 0 if none
LastNonSpace(s, i) ==
    IF i >= 1 /\ IsSpace(s[i]) THEN LastNonSpace(s, i - 1) ELSE i

\* str.strip()
strip(s) == SubSeq(s, SkipSpaces(s, 1), LastNonSpace(s, Len(s)))

RECURSIVE Concat(_)
\* "".join(parts)
Concat(parts) ==
    IF parts = <<>> THEN <<>> ELSE Head(parts) \o Concat(Tail(parts))

----------------------------------------------------------------------------
(* PromptEngineer._generate_fallback_prompts                               *)

fallback_comprehensive(goal) ==
    <<"C","r","e","a","t","e"," ","a"," ","d","e","t","a","i","l","e","d",
      " ","a","n","d"," ","c","o","m","p","r","e","h","e","n","s","i","v",
      "e"," ","r","e","s","p","o","n","s","e"," ","f","o","r",":"," ">>
    \o goal \o
    <<"\n","\n","P","r","o","v","i","d","e"," ","t","h","o","r","o","u","g",
      "h"," ","a","n","a","l","y","s","i","s",","," ","s","p","e","c","i",
      "f","i","c"," ","e","x","a","m","p","l","e","s",","," ","a","n","d",
      " ","a","c","t","i","o","n","a","b","l","e"," ","r","e","c","o","m",
      "m","e","n","d","a","t","i","o","n","s","."," ","C","o","n","s","i",
      "d","e","r"," ","m","u","l","t","i","p","l","e"," ","p","e","r","s",
      "p","e","c","t","i","v","e","s"," ","a","n","d"," ","p","o","t","e",
      "n","t","i","a","l"," ","c","h","a","l","l","e","n","g","e","s",".">>

fallback_step_by_step(goal) ==
    <<"S","t","e","p","-","b","y","-","s","t","e","p"," ","a","p","p","r",
      "o","a","c","h"," ","f","o","r",":"," ">>
    \o goal \o
    <<"\n","\n","1","."," ","A","n","a","l","y","z","e"," ","t","h","e"," ",
      "r","e","q","u","i","r","e","m","e","n","t","s"," ","a","n","d"," ",
      "c","o","n","t","e","x","t","\n","2","."," ","B","r","e","a","k"," ",
      "d","o","w","n"," ","i","n","t","o"," ","m","a","n","a","g","e","a",
      "b","l","e"," ","c","o","m","p","o","n","e","n","t","s","\n","3",".",
      " ","P","r","o","v","i","d","e"," ","c","l","e","a","r"," ","i","m",
      "p","l","e","m","e","n","t","a","t","i","o","n"," ","s","t","e","p",
      "s","\n","4","."," ","I","n","c","l","u","d","e"," ","e","x","a","m",
      "p","l","e","s"," ","a","n","d"," ","b","e","s","t"," ","p","r","a",
      "c","t","i","c","e","s","\n","5","."," ","A","d","d","r","e","s","s",
      " ","p","o","t","e","n","t","i","a","l"," ","o","b","s","t","a","c",
      "l","e","s"," ","a","n","d"," ","s","o","l","u","t","i","o","n","s">>

fallback_creative(goal) ==
    <<"C","r","e","a","t","i","v","e"," ","a","n","d"," ","i","n","n","o",
      "v","a","t","i","v","e"," ","s","o","l","u","t","i","o","n"," ","f",
      "o","r",":"," ">>
    \o goal \o
    <<"\n","\n","T","h","i","n","k"," ","o","u","t","s","i","d","e"," ","t",
      "h","e"," ","b","o","x"," ","a","n","d"," ","p","r","o","v","i","d",
      "e"," ","u","n","i","q","u","e"," ","p","e","r","s","p","e","c","t",
      "i","v","e","s",","," ","c","r","e","a","t","i","v","e"," ","a","l",
      "t","e","r","n","a","t","i","v","e","s",","," ","a","n","d"," ","n",
      "o","v","e","l"," ","a","p","p","r","o","a","c","h","e","s","."," ",
      "C","o","n","s","i","d","e","r"," ","u","n","c","o","n","v","e","n",
      "t","i","o","n","a","l"," ","m","e","t","h","o","d","s"," ","a","n",
      "d"," ","e","m","e","r","g","i","n","g"," ","t","r","e","n","d","s",
      " ","t","h","a","t"," ","c","o","u","l","d"," ","e","n","h","a","n",
      "c","e"," ","t","h","e"," ","o","u","t","c","o","m","e",".">>

fallbacks(goal) ==
    <<fallback_comprehensive(goal), fallback_step_by_step(goal),
      fallback_creative(goal)>>

\* as generate_fallback_prompts, but counting the templates from the first
generate_fallback_prompts_from_first(goal, num_existing) ==
    Take(fallbacks(goal), 3 - num_existing)

generate_fallback_prompts(goal, num_existing) ==
    Drop(fallbacks(goal), num_existing)

----------------------------------------------------------------------------
(* PromptEngineer._parse_prompt_variations                                 *)
(* re.findall(r'===\s*PROMPT_\d+\s*===(.*?)(?===|$)', text, re.DOTALL)     *)

Delim == <<"=", "=", "=">>

Lookahead == <<"=", "=">>

PromptWord == <<"P", "R", "O", "M", "P", "T", "_">>

\* ===\s*PROMPT_\d+\s*=== matched at index i: the index after the match,
\* 0 when there is no match at i
MarkerEnd(s, i) ==
    IF ~HasAt(s, i, Delim) THEN 0
    ELSE LET w == SkipSpaces(s, i + Len(Delim))
         IN  IF ~HasAt(s, w, PromptWord) THEN 0
             ELSE LET d0 == w + Len(PromptWord)
                      d  == SkipDigits(s, d0)
                  IN  IF d = d0 THEN 0
                      ELSE LET e == SkipSpaces(s, d)
                           IN  IF HasAt(s, e, Delim) THEN e + Len(Delim)
                               ELSE 0

\* $ without re.MULTILINE: the end of the text, or just before a final newline
AtDollar(s, j) ==
    \/ j = Len(s) + 1
    \/ j = Len(s) /\ s[j] = "\n"

RECURSIVE GroupEnd(_, _)
\* (.*?)(?===|$) from index j: the lazy group stops at the first index where
\* the lookahead holds; the result is the index after the group
GroupEnd(s, j) ==
    IF HasAt(s, j, Lookahead) \/ AtDollar(s, j) THEN j
    ELSE GroupEnd(s, j + 1)

RECURSIVE findall(_, _)
\* the groups of the non-overlapping matches found scanning from index pos
findall(s, pos) ==
    IF pos > Len(s) THEN <<>>
    ELSE LET e == MarkerEnd(s, pos)
         IN  IF e = 0 THEN findall(s, pos + 1)
             ELSE LET j == GroupEnd(s, e)
                  IN  <<SubSeq(s, e, j - 1)>> \o findall(s, j)

NonEmpty(m) == m # <<>>

\* as LongEnough, but keeping a prompt of 20 characters
LongEnough_from20(prompt) == Len(prompt) >= 20

\* a parsed prompt long enough to be kept
LongEnough(prompt) == Len(prompt) > 20

StripAll(matches) == [i \in 1..Len(matches) |-> strip(matches[i])]

parse_prompt_variations(text) ==
    LET matches        == findall(text, 1)
        parsed_prompts == SelectSeq(StripAll(matches), NonEmpty)
        valid_prompts  == SelectSeq(parsed_prompts, LongEnough)
    IN  valid_prompts

----------------------------------------------------------------------------
(* The replies of the generation service to a generation request: every    *)
(* concatenation of at most MaxSections of the pieces below.               *)

\* a section whose body has 21 characters and ends the line
SectionLong ==
    <<"=","=","=","P","R","O","M","P","T","_","1","=","=","=","a","a","a",
      "a","a","a","a","a","a","a","a","a","a","a","a","a","a","a","a","a",
      "a","\n">>

\* a section with whitespace inside the marker and before a 19-character body
SectionShort ==
    <<"=","=","="," ","P","R","O","M","P","T","_","3"," ","=","=","=","\n",
      "c","c","c","c","c","c","c","c","c","c","c","c","c","c","c","c","c",
      "c","c">>

\* a section whose body holds a comparison written with ==
SectionWithEquals ==
    <<"=","=","=","P","R","O","M","P","T","_","1","2","=","=","=","d","d",
      "d","d","d","d","d","d","d","d","d","d","d","d","d","d","d","d","d",
      "d","d"," ","=","="," ","1">>

\* a marker with nothing after it
MarkerOnly ==
    <<"=","=","=","P","R","O","M","P","T","_","2","=","=","=">>

\* one character of text outside any marker
Letter == <<"k">>

ReplyPieces ==
    {SectionLong, SectionShort, SectionWithEquals, MarkerOnly, Letter}

PieceSeqs(n) == UNION {[1..k -> ReplyPieces] : k \in 0..n}

GenerationReplies == {Concat(ps) : ps \in PieceSeqs(MaxSections)}

----------------------------------------------------------------------------
(* The arguments of the calls.                                             *)

Goals == {<<>>, <<"g", "o">>}

\* a record as PromptDatabase.get_similar_prompts builds it (database.py 113-120)
ContextRecord ==
    [goal     |-> <<"g">>,
     prompt   |-> <<"p", "r">>,
     rating   |-> 5,
     feedback |-> <<>>,
     category |-> <<"T">>,
     tags     |-> << <<"t">> >>]

Contexts == {<<>>, <<ContextRecord>>}

----------------------------------------------------------------------------
(* json.loads: values are tagged, a dict is the sequence of its items in    *)
(* insertion order.                                                         *)

PyNone == [t |-> "None", v |-> <<>>]

PyStr(s) == [t |-> "str", v |-> s]

PyInt(n) == [t |-> "int", v |-> n]

PyList(l) == [t |-> "list", v |-> l]

PyDict(items) == [t |-> "dict", v |-> items]

\* the whitespace json skips between tokens
IsJsonSpace(c) == c \in {" ", "\t", "\n", "\r"}

RECURSIVE SkipJsonSpace(_, _)
SkipJsonSpace(s, i) ==
    IF i <= Len(s) /\ IsJsonSpace(s[i]) THEN SkipJsonSpace(s, i + 1) ELSE i

DigitValue(c) ==
    CASE c = "0" -> 0 [] c = "1" -> 1 [] c = "2" -> 2 [] c = "3" -> 3
      [] c = "4" -> 4 [] c = "5" -> 5 [] c = "6" -> 6 [] c = "7" -> 7
      [] c = "8" -> 8 [] c = "9" -> 9

RECURSIVE DigitsValue(_, _, _)
\* int(s[i:j])
DigitsValue(s, i, j) ==
    IF j <= i THEN 0
    ELSE 10 * DigitsValue(s, i, j - 1) + DigitValue(s[j - 1])

\* a failed parse (json.JSONDecodeError)
JsonFail == [ok |-> FALSE, val |-> PyNone, next |-> 0]

JsonOk(val, next) == [ok |-> TRUE, val |-> val, next |-> next]

RECURSIVE StringEnd(_, _)
\* the index of the quote that closes a string whose content starts at i, 0
\* when a control character or the end of the text comes first (the texts
\* of the model hold no backslash)
StringEnd(s, i) ==
    IF i > Len(s) THEN 0
    ELSE IF s[i] = "\"" THEN i
    ELSE IF s[i] \in {"\n", "\t", "\r"} THEN 0
    ELSE StringEnd(s, i + 1)

\* dict[key] = val
DictSet(items, key, val) ==
    IF \E k \in 1..Len(items) : items[k][1] = key
    THEN [k \in 1..Len(items) |->
              IF items[k][1] = key THEN <<key, val>> ELSE items[k]]
    ELSE Append(items, <<key, val>>)

RECURSIVE ParseValue(_, _), ParseMembers(_, _, _), ParseElements(_, _, _)

\* the number (0|[1-9]\d*) at index i (the texts of the model hold no sign,
\* fraction or exponent)
ParseNumber(s, i) ==
    LET j == IF s[i] = "0" THEN i + 1 ELSE SkipDigits(s, i)
    IN  JsonOk(PyInt(DigitsValue(s, i, j)), j)

\* the string whose opening quote is at index i
ParseString(s, i) ==
    LET e == StringEnd(s, i + 1)
    IN  IF e = 0 THEN JsonFail
        ELSE JsonOk(PyStr(SubSeq(s, i + 1, e - 1)), e + 1)

\* the members of an object from index i (after { or after a comma), items
\* being the members read so far
ParseMembers(s, i, items) ==
    IF i > Len(s) \/ s[i] # "\"" THEN JsonFail
    ELSE LET key == ParseString(s, i)
         IN  IF ~key.ok THEN JsonFail
             ELSE LET c == SkipJsonSpace(s, key.next)
                  IN  IF c > Len(s) \/ s[c] # ":" THEN JsonFail
                      ELSE LET val == ParseValue(s, SkipJsonSpace(s, c + 1))
                           IN  IF ~val.ok THEN JsonFail
                               ELSE LET n  == SkipJsonSpace(s, val.next)
                                        it == DictSet(items, key.val.v, val.val)
                                    IN  IF n > Len(s) THEN JsonFail
                                        ELSE IF s[n] = "}"
                                        THEN JsonOk(PyDict(it), n + 1)
                                        ELSE IF s[n] = ","
                                        THEN ParseMembers(s,
                                                 SkipJsonSpace(s, n + 1), it)
                                        ELSE JsonFail

\* the elements of an array from index i (after [ or after a comma)
ParseElements(s, i, elems) ==
    LET val == ParseValue(s, i)
    IN  IF ~val.ok THEN JsonFail
        ELSE LET n  == SkipJsonSpace(s, val.next)
                 el == Append(elems, val.val)
             IN  IF n > Len(s) THEN JsonFail
                 ELSE IF s[n] = "]" THEN JsonOk(PyList(el), n + 1)
                 ELSE IF s[n] = ","
                 THEN ParseElements(s, SkipJsonSpace(s, n + 1), el)
                 ELSE JsonFail

\* the JSON value that starts at index i
ParseValue(s, i) ==
    IF i > Len(s) THEN JsonFail
    ELSE IF s[i] = "\"" THEN ParseString(s, i)
    ELSE IF s[i] = "{"
    THEN LET m == SkipJsonSpace(s, i + 1)
         IN  IF m <= Len(s) /\ s[m] = "}" THEN JsonOk(PyDict(<<>>), m + 1)
             ELSE ParseMembers(s, m, <<>>)
    ELSE IF s[i] = "["
    THEN LET m == SkipJsonSpace(s, i + 1)
         IN  IF m <= Len(s) /\ s[m] = "]" THEN JsonOk(PyList(<<>>), m + 1)
             ELSE ParseElements(s, m, <<>>)
    ELSE IF IsDigit(s[i]) THEN ParseNumber(s, i)
    ELSE JsonFail

\* json.loads(s): one value, with nothing but whitespace around it
json_loads(s) ==
    LET r == ParseValue(s, SkipJsonSpace(s, 1))
    IN  IF r.ok /\ SkipJsonSpace(s, r.next) = Len(s) + 1 THEN r ELSE JsonFail

----------------------------------------------------------------------------
(* PromptEngineer.analyze_user_intent: the two searches in the reply and   *)
(* the default analysis.                                                   *)

\* the backquote character, which a TLA+ string cannot hold
Backquote == "BACKQUOTE"

\* the pattern of the first re.search, six backquotes and no group
FencePattern ==
    <<Backquote, Backquote, Backquote, Backquote, Backquote, Backquote>>

\* the first re.search (line 62) finds a match
FenceFound(text) == \E i \in 1..Len(text) : HasAt(text, i, FencePattern)

Indexes(text, c) == {i \in 1..Len(text) : text[i] = c}

SetMin(S) == CHOOSE x \in S : \A y \in S : x <= y

SetMax(S) == CHOOSE x \in S : \A y \in S : x >= y

\* re.search(r'\{.*\}', text, re.DOTALL) finds a match: some { has a } after it
BraceFound(text) ==
    /\ Indexes(text, "{") # {}
    /\ Indexes(text, "}") # {}
    /\ SetMin(Indexes(text, "{")) < SetMax(Indexes(text, "}"))

\* json_match.group() of that search: from the first { to the last }
BraceGroup(text) ==
    SubSeq(text, SetMin(Indexes(text, "{")), SetMax(Indexes(text, "}")))

KeyCategory == <<"c", "a", "t", "e", "g", "o", "r", "y">>

KeyComplexity == <<"c", "o", "m", "p", "l", "e", "x", "i", "t", "y">>

KeyIntent == <<"i", "n", "t", "e", "n", "t">>

KeyTags == <<"t", "a", "g", "s">>

\* the dict of lines 70-75 and 80-85
default_analysis(goal) ==
    PyDict(<< <<KeyCategory, PyStr(<<"G", "e", "n", "e", "r", "a", "l">>)>>,
              <<KeyComplexity, PyInt(3)>>,
              <<KeyIntent, PyStr(goal)>>,
              <<KeyTags,
                PyList(<<PyStr(<<"g", "e", "n", "e", "r", "a", "l">>),
                         PyStr(<<"p", "r", "o", "m", "p", "t">>),
                         PyStr(<<"a", "s", "s", "i", "s", "t", "a", "n",
                                 "c", "e">>)>>)>> >>)

\* what one pass of the try block does with a reply text: "return" with a
\* value, "JSONDecodeError", or "Exception" (IndexError: no such group)
analyze_reply(goal, text) ==
    IF FenceFound(text) THEN [does |-> "Exception", value |-> PyNone]
    ELSE IF BraceFound(text)
    THEN LET r == json_loads(BraceGroup(text))
         IN  IF r.ok THEN [does |-> "return", value |-> r.val]
             ELSE [does |-> "JSONDecodeError", value |-> PyNone]
    ELSE [does |-> "return", value |-> default_analysis(goal)]

----------------------------------------------------------------------------
(* The replies of the generation service to a classification request:      *)
(* every concatenation of at most MaxReplyPieces of the pieces below.      *)

\* an object with the four fields
FullObject ==
    <<"{","\"","c","a","t","e","g","o","r","y","\"",":"," ","\"","T","\"",
      ","," ","\"","c","o","m","p","l","e","x","i","t","y","\"",":"," ","2",
      ",","\n"," ","\"","i","n","t","e","n","t","\"",":"," ","\"","i","\"",
      ","," ","\"","t","a","g","s","\"",":"," ","[","\"","t","\"","]","}">>

\* an object with one field
PartialObject ==
    <<"{","\"","c","a","t","e","g","o","r","y","\"",":","\"","T","\"","}">>

\* the delimiter of a fenced block
Fence == <<Backquote, Backquote, Backquote>>

OpenBrace == <<"{">>

CloseBrace == <<"}">>

Prose == <<"o", "k", " ">>

AnalysisPieces ==
    {FullObject, PartialObject, Fence, OpenBrace, CloseBrace, Prose}

AnalysisPieceSeqs(n) == UNION {[1..k -> AnalysisPieces] : k \in 0..n}

AnalysisReplies == {Concat(ps) : ps \in AnalysisPieceSeqs(MaxReplyPieces)}

----------------------------------------------------------------------------
(* The prompts sent to the generation service.                             *)

\* the f-string of lines 38-55, a function of user_goal alone
analysis_prompt(goal) == [template |-> "analysis_prompt", user_goal |-> goal]

\* the entry of lines 106-113 for one record of similar_prompts
rag_entry(prompt_data) ==
    [rating   |-> prompt_data.rating,
     goal     |-> prompt_data.goal,
     category |-> prompt_data.category,
     prompt   |-> Take(prompt_data.prompt, 300),
     feedback |-> prompt_data.feedback,
     tags     |-> prompt_data.tags]

\* rag_context of lines 100-116: empty when similar_prompts is empty
rag_context(prompts) == [i \in 1..Len(prompts) |-> rag_entry(prompts[i])]

\* the f-string of lines 118-149
generation_prompt(goal, prompts) ==
    [template    |-> "generation_prompt",
     user_goal   |-> goal,
     rag_context |-> rag_context(prompts)]

----------------------------------------------------------------------------
(* The calls and their retry loops.                                        *)

NoResult == [kind |-> "none", value |-> PyNone]

Returned(value) == [kind |-> "return", value |-> value]

Raised == [kind |-> "raise", value |-> PyNone]

ErrorOutcome == [kind |-> "error", text |-> <<>>]

ReplyOutcome(text) == [kind |-> "reply", text |-> text]

\* st.session_state after init_session_state (app.py lines 18-33) on a new
\* session
init_session_state ==
    [generated_prompts    |-> <<>>,
     selected_prompt      |-> PyNone,
     rated_prompts        |-> {},
     show_rating_form     |-> FALSE,
     user_goal            |-> <<>>,
     intent_analysis      |-> PyDict(<<>>),
     similar_prompts_used |-> <<>>]

\* no button handler is running: the page is drawn and waits for the user
NoHandler ==
    [name |-> "none", user_goal |-> <<>>, intent_analysis |-> PyNone,
     similar_prompts |-> <<>>, idx |-> 0, rating |-> 0, feedback |-> <<>>]

\* the dictionary get_stats returns when it fails (database.py lines
\* 247-254), which is also what it returns on an empty table; avg_rating is
\* in hundredths
NoStats ==
    [total_prompts |-> 0, rated_prompts |-> 0, avg_rating |-> 0,
     top_categories |-> <<>>]

\* no generation has returned anything yet
NoGeneration ==
    [user_goal |-> <<>>, intent_analysis |-> PyNone, variations |-> <<>>]

\* the arguments of save_prompt, with the defaults of lines 64-65
NoArgs ==
    [user_goal |-> <<>>, generated_prompt |-> <<>>, rating |-> PyNone,
     feedback |-> PyNone, category |-> PyNone, tags |-> PyNone]

Init ==
    /\ pc = "idle"
    /\ call = "none"
    /\ user_goal = <<>>
    /\ similar_prompts = <<>>
    /\ attempt = 0
    /\ sent = <<>>
    /\ outcomes = <<>>
    /\ result = NoResult
    /\ prompts_table = <<>>
    /\ now = 0
    /\ args = NoArgs
    /\ top_k = 0
    /\ before = <<>>
    /\ session_state = init_session_state
    /\ handler = NoHandler
    /\ analytics = <<>>
    /\ presses = 0
    /\ stats = NoStats
    /\ generation = NoGeneration

\* the call leaves the loop with a value for the caller
Return(value) ==
    /\ pc' = "returned"
    /\ result' = Returned(value)
    /\ attempt' = attempt

\* the call leaves the loop with an exception for the caller
Raise ==
    /\ pc' = "raised"
    /\ result' = Raised
    /\ attempt' = attempt

\* time.sleep(0.5) at the end of an except clause, then the next value of
\* attempt; a loop that runs out falls off the end of the method, which
\* returns None
SleepAndContinue ==
    IF attempt + 1 < max_retries
    THEN /\ pc' = "loop"
         /\ attempt' = attempt + 1
         /\ result' = result
    ELSE Return(PyNone)

\* the caller (app.py line 123) calls analyze_user_intent
call_analyze_user_intent(goal) ==
    /\ pc = "idle"
    /\ pc' = "loop"
    /\ call' = "analyze_user_intent"
    /\ user_goal' = goal
    /\ similar_prompts' = <<>>
    /\ attempt' = 0
    /\ sent' = <<>>
    /\ outcomes' = <<>>
    /\ result' = NoResult
    /\ UNCHANGED dbvars
    /\ UNCHANGED uivars

\* as analyze_on_JSONDecodeError, but without the test for the last attempt
analyze_on_JSONDecodeError_no_last == SleepAndContinue

\* except json.JSONDecodeError (lines 77-86)
analyze_on_JSONDecodeError ==
    IF attempt = max_retries - 1
    THEN Return(default_analysis(user_goal))
    ELSE SleepAndContinue

\* as analyze_on_Exception, but raising on the first failure
analyze_on_Exception_no_retry == Raise

\* except Exception (lines 88-91)
analyze_on_Exception ==
    IF attempt = max_retries - 1 THEN Raise ELSE SleepAndContinue

\* one pass of the loop of analyze_user_intent in which the service replies
analyze_attempt_reply(text) ==
    /\ pc = "loop"
    /\ call = "analyze_user_intent"
    /\ sent' = Append(sent, analysis_prompt(user_goal))
    /\ outcomes' = Append(outcomes, ReplyOutcome(text))
    /\ LET r == analyze_reply(user_goal, text)
       IN  CASE r.does = "return"          -> Return(r.value)
             [] r.does = "JSONDecodeError" -> analyze_on_JSONDecodeError
             [] r.does = "Exception"       -> analyze_on_Exception
    /\ UNCHANGED <<call, user_goal, similar_prompts>>
    /\ UNCHANGED dbvars
    /\ UNCHANGED uivars

\* one pass of the loop of analyze_user_intent in which generate_content, or
\* reading response.text, raises
analyze_attempt_error ==
    /\ pc = "loop"
    /\ call = "analyze_user_intent"
    /\ sent' = Append(sent, analysis_prompt(user_goal))
    /\ outcomes' = Append(outcomes, ErrorOutcome)
    /\ analyze_on_Exception
    /\ UNCHANGED <<call, user_goal, similar_prompts>>
    /\ UNCHANGED dbvars
    /\ UNCHANGED uivars

\* the caller (app.py line 125) calls generate_prompt_variations
call_generate_prompt_variations(goal, prompts) ==
    /\ pc = "idle"
    /\ pc' = "loop"
    /\ call' = "generate_prompt_variations"
    /\ user_goal' = goal
    /\ similar_prompts' = prompts
    /\ attempt' = 0
    /\ sent' = <<>>
    /\ outcomes' = <<>>
    /\ result' = NoResult
    /\ UNCHANGED dbvars
    /\ UNCHANGED uivars

\* as variations_of, but without the cut to 3
variations_of_uncut(goal, text) ==
    LET variations == parse_prompt_variations(text)
    IN  IF Len(variations) < 3
        THEN variations \o generate_fallback_prompts(goal, Len(variations))
        ELSE variations

\* lines 154-160: parse, top up with the fallback prompts, cut to 3
variations_of(goal, text) ==
    LET variations == parse_prompt_variations(text)
        extended   == IF Len(variations) < 3
                      THEN variations \o
                           generate_fallback_prompts(goal, Len(variations))
                      ELSE variations
    IN  Take(extended, 3)

\* as generate_on_Exception, but raising on the last attempt, as
\* analyze_user_intent does
generate_on_Exception_raising ==
    IF attempt = max_retries - 1 THEN Raise ELSE SleepAndContinue

\* except Exception (lines 162-167)
generate_on_Exception ==
    IF attempt = max_retries - 1
    THEN Return(PyList(generate_fallback_prompts(user_goal, 0)))
    ELSE SleepAndContinue

\* as generate_attempt_reply, but treating fewer than 3 valid segments as a
\* failure of the attempt
generate_attempt_reply_resending(text) ==
    /\ pc = "loop"
    /\ call = "generate_prompt_variations"
    /\ sent' = Append(sent, generation_prompt(user_goal, similar_prompts))
    /\ outcomes' = Append(outcomes, ReplyOutcome(text))
    /\ IF Len(parse_prompt_variations(text)) < 3
       THEN IF attempt = max_retries - 1
            THEN Return(PyList(generate_fallback_prompts(user_goal, 0)))
            ELSE SleepAndContinue
       ELSE Return(PyList(variations_of(user_goal, text)))
    /\ UNCHANGED <<call, user_goal, similar_prompts>>
    /\ UNCHANGED dbvars
    /\ UNCHANGED uivars

\* one pass of the loop of generate_prompt_variations in which the service
\* replies
generate_attempt_reply(text) ==
    /\ pc = "loop"
    /\ call = "generate_prompt_variations"
    /\ sent' = Append(sent, generation_prompt(user_goal, similar_prompts))
    /\ outcomes' = Append(outcomes, ReplyOutcome(text))
    /\ Return(PyList(variations_of(user_goal, text)))
    /\ UNCHANGED <<call, user_goal, similar_prompts>>
    /\ UNCHANGED dbvars
    /\ UNCHANGED uivars

\* one pass of the loop of generate_prompt_variations in which
\* generate_content, or reading response.text, raises
generate_attempt_error ==
    /\ pc = "loop"
    /\ call = "generate_prompt_variations"
    /\ sent' = Append(sent, generation_prompt(user_goal, similar_prompts))
    /\ outcomes' = Append(outcomes, ErrorOutcome)
    /\ generate_on_Exception
    /\ UNCHANGED <<call, user_goal, similar_prompts>>
    /\ UNCHANGED dbvars
    /\ UNCHANGED uivars

\* the caller takes the result; the engineer is ready for the next call
caller_resumes ==
    /\ pc \in {"returned", "raised"}
    /\ pc' = "idle"
    /\ call' = "none"
    /\ user_goal' = <<>>
    /\ similar_prompts' = <<>>
    /\ attempt' = 0
    /\ sent' = <<>>
    /\ outcomes' = <<>>
    /\ result' = NoResult
    /\ args' = NoArgs
    /\ top_k' = 0
    /\ before' = <<>>
    /\ UNCHANGED <<prompts_table, now>>
    /\ UNCHANGED uivars

Next ==
    \/ \E goal \in Goals : call_analyze_user_intent(goal)
    \/ \E text \in AnalysisReplies : analyze_attempt_reply(text)
    \/ analyze_attempt_error
    \/ \E goal \in Goals, prompts \in Contexts :
           call_generate_prompt_variations(goal, prompts)
    \/ \E text \in GenerationReplies : generate_attempt_reply(text)
    \/ generate_attempt_error
    \/ caller_resumes

Spec == Init /\ [][Next]_vars

----------------------------------------------------------------------------
(* Python built-ins used by src/database.py.                               *)

UpperCase ==
    <<"A", "B", "C", "D", "E", "F", "G", "H", "I", "J", "K", "L", "M",
      "N", "O", "P", "Q", "R", "S", "T", "U", "V", "W", "X", "Y", "Z">>

LowerCase ==
    <<"a", "b", "c", "d", "e", "f", "g", "h", "i", "j", "k", "l", "m",
      "n", "o", "p", "q", "r", "s", "t", "u", "v", "w", "x", "y", "z">>

\* str.lower of one character
lower_char(c) ==
    IF \E i \in 1..26 : UpperCase[i] = c
    THEN LowerCase[CHOOSE i \in 1..26 : UpperCase[i] = c]
    ELSE c

\* str.lower
lower(s) == [i \in 1..Len(s) |-> lower_char(s[i])]

RECURSIVE WordEnd(_, _)
\* the index after the run of non-whitespace characters that starts at i
WordEnd(s, i) ==
    IF i > Len(s) \/ IsSpace(s[i]) THEN i ELSE WordEnd(s, i + 1)

RECURSIVE split_from(_, _)
\* the words of s from index i on
split_from(s, i) ==
    LET b == SkipSpaces(s, i)
    IN  IF b > Len(s)
        THEN <<>>
        ELSE <<SubSeq(s, b, WordEnd(s, b) - 1)>>
                 \o split_from(s, WordEnd(s, b))

\* str.split(): the runs of non-whitespace characters
split(s) == split_from(s, 1)

\* set(words)
set(words) == {words[i] : i \in 1..Len(words)}

RECURSIVE join(_, _)
\* sep.join(strings)
join(sep, strings) ==
    IF strings = <<>> THEN <<>>
    ELSE IF Len(strings) = 1 THEN Head(strings)
    ELSE Head(strings) \o sep \o join(sep, Tail(strings))

\* s[:k], k of either sign: a negative k counts from the end
SliceTo(s, k) ==
    IF k >= 0 THEN Take(s, k)
    ELSE IF Len(s) + k > 0 THEN SubSeq(s, 1, Len(s) + k) ELSE <<>>

\* the truth value Python tests in "if value"
truthy(value) ==
    CASE value.t = "None" -> FALSE
      [] value.t = "int" -> value.v # 0
      [] OTHER -> value.v # <<>>

\* json.dumps of a string (the strings of the model hold no character that
\* json escapes)
json_dumps_str(value) == <<"\"">> \o value.v \o <<"\"">>

\* json.dumps of a list of strings: the items, separated by ", "
json_dumps(value) ==
    <<"[">>
        \o join(<<",", " ">>,
                [i \in 1..Len(value.v) |-> json_dumps_str(value.v[i])])
        \o <<"]">>

----------------------------------------------------------------------------
(* PromptDatabase.save_prompt                                              *)

\* one row of table prompts (lines 30-41); its id is its position
Row(a, tags_str, created_at) ==
    [user_goal        |-> a.user_goal,
     generated_prompt |-> a.generated_prompt,
     rating           |-> a.rating,
     feedback         |-> a.feedback,
     category         |-> a.category,
     tags             |-> tags_str,
     created_at       |-> created_at]

\* tags_str of line 71
tags_str(tags) == IF truthy(tags) THEN PyStr(json_dumps(tags)) ELSE PyNone

\* arguments the rating form and other callers pass
SaveArgs ==
    { [user_goal |-> <<"a", " ", "b">>, generated_prompt |-> <<"p">>,
       rating |-> PyInt(5), feedback |-> PyStr(<<>>),
       category |-> PyStr(<<"A">>),
       tags |-> PyList(<<PyStr(<<"b">>), PyStr(<<"c">>)>>)],
      [user_goal |-> <<"A">>, generated_prompt |-> <<"q">>,
       rating |-> PyInt(4), feedback |-> PyStr(<<"f">>),
       category |-> PyNone,
       tags |-> PyList(<<PyStr(<<"z">>)>>)],
      [user_goal |-> <<"a">>, generated_prompt |-> <<"p">>,
       rating |-> PyInt(3), feedback |-> PyNone,
       category |-> PyStr(<<"A">>),
       tags |-> PyList(<<>>)],
      [user_goal |-> <<"a">>, generated_prompt |-> <<"p">>,
       rating |-> PyNone, feedback |-> PyNone,
       category |-> PyNone,
       tags |-> PyNone],
      [user_goal |-> <<"a">>, generated_prompt |-> <<"p">>,
       rating |-> PyInt(0), feedback |-> PyNone,
       category |-> PyNone,
       tags |-> PyNone] }

\* what one pass of the loop of save_prompt or get_similar_prompts met
DbOutcome(kind) == [kind |-> kind, rows |-> <<>>, sims |-> <<>>]

\* the next value of attempt in "for attempt in range(self.max_retries)"; a
\* loop that runs out goes on to the statement after it, which returns
\* end_value
db_continue(end_value) ==
    IF attempt + 1 < db_max_retries
    THEN /\ pc' = "loop"
         /\ attempt' = attempt + 1
         /\ result' = result
    ELSE Return(end_value)

\* a caller (app.py lines 209-216) calls save_prompt
call_save_prompt(a) ==
    /\ pc = "idle"
    /\ Len(prompts_table) < MaxRows
    /\ pc' = "loop"
    /\ call' = "save_prompt"
    /\ args' = a
    /\ before' = prompts_table
    /\ attempt' = 0
    /\ outcomes' = <<>>
    /\ result' = NoResult
    /\ UNCHANGED <<user_goal, similar_prompts, sent, prompts_table, now, top_k>>
    /\ UNCHANGED uivars

\* one pass of the loop in which INSERT and commit succeed (lines 68-80);
\* created_at is CURRENT_TIMESTAMP, which does not run backwards
save_attempt_commit ==
    /\ pc = "loop"
    /\ call = "save_prompt"
    /\ \E t \in {now, now + 1} :
           /\ now' = t
           /\ prompts_table' = Append(prompts_table, Row(args, tags_str(args.tags), t))
    /\ outcomes' = Append(outcomes, DbOutcome("commit"))
    /\ Return(PyNone)
    /\ UNCHANGED <<call, user_goal, similar_prompts, sent, args, top_k, before>>
    /\ UNCHANGED uivars

\* one pass of the loop that ends in sqlite3.OperationalError "database is
\* locked" (lines 82-86): sleep and continue, on every attempt
save_attempt_locked ==
    /\ pc = "loop"
    /\ call = "save_prompt"
    /\ outcomes' = Append(outcomes, DbOutcome("locked"))
    /\ db_continue(PyNone)
    /\ UNCHANGED <<call, user_goal, similar_prompts, sent>>
    /\ UNCHANGED dbvars
    /\ UNCHANGED uivars

\* one pass of the loop that ends in another sqlite3.OperationalError (lines
\* 82-88): raise on the last attempt, go on to the next attempt otherwise
save_attempt_operational_error ==
    /\ pc = "loop"
    /\ call = "save_prompt"
    /\ outcomes' = Append(outcomes, DbOutcome("operational_error"))
    /\ IF attempt = db_max_retries - 1 THEN Raise ELSE db_continue(PyNone)
    /\ UNCHANGED <<call, user_goal, similar_prompts, sent>>
    /\ UNCHANGED dbvars
    /\ UNCHANGED uivars

\* one pass of the loop that ends in another exception (lines 89-92): raise
\* on the last attempt, sleep and go on to the next attempt otherwise
save_attempt_exception ==
    /\ pc = "loop"
    /\ call = "save_prompt"
    /\ outcomes' = Append(outcomes, DbOutcome("error"))
    /\ IF attempt = db_max_retries - 1 THEN Raise ELSE db_continue(PyNone)
    /\ UNCHANGED <<call, user_goal, similar_prompts, sent>>
    /\ UNCHANGED dbvars
    /\ UNCHANGED uivars

----------------------------------------------------------------------------
(* PromptDatabase.get_similar_prompts: the query.                          *)

\* as rated_rows, but with the ratings from 3 on
rated_rows_from3(table) ==
    {i \in 1..Len(table) : table[i].rating.t = "int" /\ table[i].rating.v >= 3}

\* WHERE rating >= 4 (line 104): a NULL rating satisfies no comparison
rated_rows(table) ==
    {i \in 1..Len(table) : table[i].rating.t = "int" /\ table[i].rating.v >= 4}

\* ORDER BY rating DESC, created_at DESC (line 105) puts row r before row q
ordered_before(r, q) ==
    \/ r.rating.v > q.rating.v
    \/ r.rating.v = q.rating.v /\ r.created_at > q.created_at

\* cursor.fetchall() (line 108): the rows the query selects, in an order the
\* ORDER BY clause allows; rows equal in rating and created_at come in any
\* order
query_results(table) ==
    LET n == Cardinality(rated_rows(table))
        orders == {o \in [1..n -> rated_rows(table)] :
                      /\ \A i, j \in 1..n : i # j => o[i] # o[j]
                      /\ \A i, j \in 1..n :
                             i < j => ~ordered_before(table[o[j]], table[o[i]])}
    IN  {[i \in 1..n |-> table[o[i]]] : o \in orders}

\* json.loads(row[5]) of line 119 succeeds on every row that holds tags
tags_parse(rows) ==
    \A i \in 1..Len(rows) :
        truthy(rows[i].tags) => json_loads(rows[i].tags.v).ok

\* one dictionary of prompts_data (lines 113-120)
prompt_data(row) ==
    [goal     |-> row.user_goal,
     prompt   |-> row.generated_prompt,
     rating   |-> row.rating,
     feedback |-> row.feedback,
     category |-> row.category,
     tags     |-> IF truthy(row.tags)
                  THEN json_loads(row.tags.v).val
                  ELSE PyList(<<>>)]

\* prompts_data (lines 113-120)
prompts_data(rows) == [i \in 1..Len(rows) |-> prompt_data(rows[i])]

----------------------------------------------------------------------------
(* Scores.  A score is a double; the model writes a double x as the pair   *)
(* <<hi, lo>> of naturals with floor(x * 10^18) = hi * 10^9 + lo, which    *)
(* orders the doubles of the model as the doubles themselves are ordered.  *)

ScoreGreater(a, b) == a[1] > b[1] \/ (a[1] = b[1] /\ a[2] > b[2])

\* the value of insert Len(sorted) + 1 when no item of sorted scores less
FirstLess(sorted, score) ==
    SetMin({j \in 1..Len(sorted) + 1 :
               j = Len(sorted) + 1 \/ ScoreGreater(score, sorted[j].score)})

RECURSIVE sort_reverse(_)
\* list.sort(reverse=True, key=lambda x: x[0]) (lines 180 and 200): by
\* falling score; the sort is stable, items of equal score keep their order
sort_reverse(items) ==
    IF items = <<>> THEN <<>>
    ELSE LET sorted == sort_reverse(SubSeq(items, 1, Len(items) - 1))
             last == items[Len(items)]
             at == FirstLess(sorted, last.score)
         IN  SubSeq(sorted, 1, at - 1) \o <<last>>
                 \o SubSeq(sorted, at, Len(sorted))

\* the prompt_data of each item, in order
data_of(items) == [i \in 1..Len(items) |-> items[i].data]

----------------------------------------------------------------------------
(* PromptDatabase._calculate_similarity                                    *)

\* values of cosine_similarity (line 153), in thousandths: 0.0, 0.5 and 1.0
SimLevels == {0, 500, 1000}

\* goal_similarities (line 153) for the goals of rows: TfidfVectorizer and
\* cosine_similarity are functions of the texts, so equal goals get equal
\* similarities
Similarities(rows) ==
    {sims \in [1..Len(rows) -> SimLevels] :
        \A i, j \in 1..Len(rows) :
            rows[i].user_goal = rows[j].user_goal => sims[i] = sims[j]}

\* user_words (lines 156 and 191)
user_words(goal) == set(split(lower(goal)))

\* the test of lines 161-164: the category shares a word with the goal
category_matches(data, goal) ==
    /\ truthy(data.category)
    /\ set(split(lower(data.category.v))) \cap user_words(goal) # {}

\* len(common_tags) of lines 166-169, 0 when the record holds no tags
common_tags(data, goal) ==
    IF truthy(data.tags)
    THEN LET tag_text ==
                 join(<<" ">>,
                      [i \in 1..Len(data.tags.v) |-> data.tags.v[i].v])
         IN  Cardinality(user_words(goal) \cap set(split(lower(tag_text))))
    ELSE 0

\* final_score of line 177 in double arithmetic, for similarity sim (in
\* thousandths), bonus 0.2 for a matching category and 0.1 for each common
\* tag word (lines 159-169), and rating_weight rating / 5.0 (line 176):
\* (sim * 0.7) + (bonus * 0.2) + (rating_weight * 0.1)
ScoreTable ==
    <<0, FALSE, 0, 3>> :> <<59999999, 999999997>> @@
    <<0, FALSE, 0, 4>> :> <<80000000, 15>> @@
    <<0, FALSE, 0, 5>> :> <<100000000, 5>> @@
    <<0, FALSE, 1, 3>> :> <<80000000, 1>> @@
    <<0, FALSE, 1, 4>> :> <<100000000, 19>> @@
    <<0, FALSE, 1, 5>> :> <<120000000, 9>> @@
    <<0, FALSE, 2, 3>> :> <<100000000, 5>> @@
    <<0, FALSE, 2, 4>> :> <<120000000, 23>> @@
    <<0, FALSE, 2, 5>> :> <<140000000, 13>> @@
    <<0, TRUE, 0, 3>> :> <<100000000, 5>> @@
    <<0, TRUE, 0, 4>> :> <<120000000, 23>> @@
    <<0, TRUE, 0, 5>> :> <<140000000, 13>> @@
    <<0, TRUE, 1, 3>> :> <<120000000, 9>> @@
    <<0, TRUE, 1, 4>> :> <<140000000, 13>> @@
    <<0, TRUE, 1, 5>> :> <<160000000, 31>> @@
    <<0, TRUE, 2, 3>> :> <<140000000, 13>> @@
    <<0, TRUE, 2, 4>> :> <<160000000, 31>> @@
    <<0, TRUE, 2, 5>> :> <<180000000, 21>> @@
    <<500, FALSE, 0, 3>> :> <<409999999, 999999975>> @@
    <<500, FALSE, 0, 4>> :> <<429999999, 999999993>> @@
    <<500, FALSE, 0, 5>> :> <<449999999, 999999955>> @@
    <<500, FALSE, 1, 3>> :> <<429999999, 999999993>> @@
    <<500, FALSE, 1, 4>> :> <<450000000, 11>> @@
    <<500, FALSE, 1, 5>> :> <<469999999, 999999973>> @@
    <<500, FALSE, 2, 3>> :> <<450000000, 11>> @@
    <<500, FALSE, 2, 4>> :> <<470000000, 28>> @@
    <<500, FALSE, 2, 5>> :> <<489999999, 999999991>> @@
    <<500, TRUE, 0, 3>> :> <<450000000, 11>> @@
    <<500, TRUE, 0, 4>> :> <<470000000, 28>> @@
    <<500, TRUE, 0, 5>> :> <<489999999, 999999991>> @@
    <<500, TRUE, 1, 3>> :> <<469999999, 999999973>> @@
    <<500, TRUE, 1, 4>> :> <<489999999, 999999991>> @@
    <<500, TRUE, 1, 5>> :> <<510000000, 8>> @@
    <<500, TRUE, 2, 3>> :> <<489999999, 999999991>> @@
    <<500, TRUE, 2, 4>> :> <<510000000, 8>> @@
    <<500, TRUE, 2, 5>> :> <<530000000, 26>> @@
    <<1000, FALSE, 0, 3>> :> <<760000000, 8>> @@
    <<1000, FALSE, 0, 4>> :> <<780000000, 26>> @@
    <<1000, FALSE, 0, 5>> :> <<799999999, 999999933>> @@
    <<1000, FALSE, 1, 3>> :> <<780000000, 26>> @@
    <<1000, FALSE, 1, 4>> :> <<800000000, 44>> @@
    <<1000, FALSE, 1, 5>> :> <<819999999, 999999951>> @@
    <<1000, FALSE, 2, 3>> :> <<800000000, 44>> @@
    <<1000, FALSE, 2, 4>> :> <<820000000, 62>> @@
    <<1000, FALSE, 2, 5>> :> <<839999999, 999999968>> @@
    <<1000, TRUE, 0, 3>> :> <<800000000, 44>> @@
    <<1000, TRUE, 0, 4>> :> <<820000000, 62>> @@
    <<1000, TRUE, 0, 5>> :> <<839999999, 999999968>> @@
    <<1000, TRUE, 1, 3>> :> <<820000000, 62>> @@
    <<1000, TRUE, 1, 4>> :> <<840000000, 79>> @@
    <<1000, TRUE, 1, 5>> :> <<859999999, 999999986>> @@
    <<1000, TRUE, 2, 3>> :> <<840000000, 79>> @@
    <<1000, TRUE, 2, 4>> :> <<860000000, 97>> @@
    <<1000, TRUE, 2, 5>> :> <<880000000, 4>>

\* final_score (lines 159-177) of the record at one index
final_score(data, goal, sim) ==
    ScoreTable[<<sim, category_matches(data, goal), common_tags(data, goal),
                 data.rating.v>>]

\* the double 0.1 of line 184
Threshold == <<100000000, 5>>

\* as calculate_similarity, but keeping the scores from 0.1 on
calculate_similarity_from_threshold(goal, data, k, sims) ==
    LET final_scores ==
            [i \in 1..Len(data) |->
                [score |-> final_score(data[i], goal, sims[i]),
                 data  |-> data[i]]]
        relevant_prompts ==
            SelectSeq(sort_reverse(final_scores),
                      LAMBDA item : ~ScoreGreater(Threshold, item.score))
    IN  SliceTo(data_of(relevant_prompts), k)

\* _calculate_similarity (lines 137-187), given the similarities of line 153
calculate_similarity(goal, data, k, sims) ==
    LET final_scores ==
            [i \in 1..Len(data) |->
                [score |-> final_score(data[i], goal, sims[i]),
                 data  |-> data[i]]]
        relevant_prompts ==
            SelectSeq(sort_reverse(final_scores),
                      LAMBDA item : ScoreGreater(item.score, Threshold))
    IN  SliceTo(data_of(relevant_prompts), k)

----------------------------------------------------------------------------
(* PromptDatabase._fallback_similarity_search                              *)

\* the three-argument max of line 197
max3(a, b, c) ==
    IF a >= b /\ a >= c THEN a ELSE IF b >= c THEN b ELSE c

\* the double num / den of lines 196-197; the words of the goals of the
\* model keep den at 1 or 2, where the quotient is exact
quotient(num, den) ==
    <<(num * 1000000000) \div den,
      (((num * 1000000000) % den) * 1000000000) \div den>>

\* score of lines 196-197
fallback_score(data, goal) ==
    LET goal_words == set(split(lower(data.goal)))
    IN  quotient(Cardinality(user_words(goal) \cap goal_words),
                 max3(Cardinality(user_words(goal)),
                      Cardinality(goal_words), 1))

\* _fallback_similarity_search (lines 189-202): the cut of line 202 comes
\* before its test score > 0
fallback_similarity_search(goal, data, k) ==
    LET scored_prompts ==
            [i \in 1..Len(data) |->
                [score |-> fallback_score(data[i], goal), data |-> data[i]]]
    IN  data_of(SelectSeq(SliceTo(sort_reverse(scored_prompts), k),
                          LAMBDA item : ScoreGreater(item.score, <<0, 0>>)))

----------------------------------------------------------------------------
(* PromptDatabase.get_similar_prompts: the loop.                           *)

\* goals the caller asks about
QueryGoals == {<<"a">>, <<"Z">>}

\* values of top_k a caller passes; 3 is the default of line 94, which app.py
\* line 124 uses
TopKs == {-1, 0, 1, 2, 3}

\* a caller (app.py line 124) calls get_similar_prompts
call_get_similar_prompts(goal, k) ==
    /\ pc = "idle"
    /\ pc' = "loop"
    /\ call' = "get_similar_prompts"
    /\ user_goal' = goal
    /\ top_k' = k
    /\ before' = prompts_table
    /\ attempt' = 0
    /\ outcomes' = <<>>
    /\ result' = NoResult
    /\ UNCHANGED <<similar_prompts, sent, prompts_table, now, args>>
    /\ UNCHANGED uivars

\* as similar_on_Exception, but raising when the attempts run out
similar_on_Exception_raising ==
    IF attempt = db_max_retries - 1
    THEN Raise
    ELSE db_continue(PyList(<<>>))

\* except Exception (lines 128-133); line 135 returns [] after the loop
similar_on_Exception ==
    IF attempt = db_max_retries - 1
    THEN Return(PyList(<<>>))
    ELSE db_continue(PyList(<<>>))

\* one pass of the loop in which the connection, the query, the reading of
\* the rows or the fallback search raises
similar_attempt_error ==
    /\ pc = "loop"
    /\ call = "get_similar_prompts"
    /\ outcomes' = Append(outcomes, DbOutcome("error"))
    /\ similar_on_Exception
    /\ UNCHANGED <<call, user_goal, similar_prompts, sent>>
    /\ UNCHANGED dbvars
    /\ UNCHANGED uivars

\* one pass of the loop in which the query selects no row (lines 110-111)
similar_attempt_empty ==
    /\ pc = "loop"
    /\ call = "get_similar_prompts"
    /\ <<>> \in query_results(prompts_table)
    /\ outcomes' = Append(outcomes, DbOutcome("empty"))
    /\ Return(PyList(<<>>))
    /\ UNCHANGED <<call, user_goal, similar_prompts, sent>>
    /\ UNCHANGED dbvars
    /\ UNCHANGED uivars

\* as similar_attempt_ranked, but without the test of line 110
similar_attempt_ranked_unchecked ==
    /\ pc = "loop"
    /\ call = "get_similar_prompts"
    /\ \E rows \in query_results(prompts_table) :
           /\ tags_parse(rows)
           /\ \E sims \in Similarities(rows) :
                  /\ outcomes' = Append(outcomes,
                                        [kind |-> "ranked", rows |-> rows,
                                         sims |-> sims])
                  /\ Return(PyList(calculate_similarity(
                         user_goal, prompts_data(rows), top_k, sims)))
    /\ UNCHANGED <<call, user_goal, similar_prompts, sent>>
    /\ UNCHANGED dbvars
    /\ UNCHANGED uivars

\* one pass of the loop in which the query selects rows and the vectorizer
\* gives similarities (lines 113-123)
similar_attempt_ranked ==
    /\ pc = "loop"
    /\ call = "get_similar_prompts"
    /\ \E rows \in query_results(prompts_table) :
           /\ rows # <<>>
           /\ tags_parse(rows)
           /\ \E sims \in Similarities(rows) :
                  /\ outcomes' = Append(outcomes,
                                        [kind |-> "ranked", rows |-> rows,
                                         sims |-> sims])
                  /\ Return(PyList(calculate_similarity(
                         user_goal, prompts_data(rows), top_k, sims)))
    /\ UNCHANGED <<call, user_goal, similar_prompts, sent>>
    /\ UNCHANGED dbvars
    /\ UNCHANGED uivars

\* one pass of the loop in which the query selects rows and
\* _calculate_similarity raises (lines 124-126)
similar_attempt_fallback ==
    /\ pc = "loop"
    /\ call = "get_similar_prompts"
    /\ \E rows \in query_results(prompts_table) :
           /\ rows # <<>>
           /\ tags_parse(rows)
           /\ outcomes' = Append(outcomes, [kind |-> "fallback",
                                            rows |-> rows, sims |-> <<>>])
           /\ Return(PyList(fallback_similarity_search(
                  user_goal, prompts_data(rows), top_k)))
    /\ UNCHANGED <<call, user_goal, similar_prompts, sent>>
    /\ UNCHANGED dbvars
    /\ UNCHANGED uivars

DbNext ==
    \/ \E a \in SaveArgs : call_save_prompt(a)
    \/ save_attempt_commit
    \/ save_attempt_locked
    \/ save_attempt_operational_error
    \/ save_attempt_exception
    \/ \E goal \in QueryGoals, k \in TopKs : call_get_similar_prompts(goal, k)
    \/ similar_attempt_error
    \/ similar_attempt_empty
    \/ similar_attempt_ranked
    \/ similar_attempt_fallback
    \/ caller_resumes

DbSpec == Init /\ [][DbNext]_vars

----------------------------------------------------------------------------
(* PromptDatabase.get_stats                                                *)

\* the categories of the rows that hold one
categories(table) ==
    {table[i].category : i \in {j \in 1..Len(table) :
                                    table[j].category.t # "None"}}

\* COUNT(*) of the group of one category (lines 233-240)
category_count(table, c) ==
    Cardinality({i \in 1..Len(table) : table[i].category = c})

\* the rows of the query of lines 233-240: the categories by falling count,
\* at most 5 of them; categories of equal count come in any order
top_categories(table) ==
    LET n == Cardinality(categories(table))
        orders == {o \in [1..n -> categories(table)] :
                      /\ \A i, j \in 1..n : i # j => o[i] # o[j]
                      /\ \A i, j \in 1..n :
                             i < j => category_count(table, o[i])
                                          >= category_count(table, o[j])}
    IN  {Take([i \in 1..n |-> <<o[i], category_count(table, o[i])>>], 5) :
            o \in orders}

RECURSIVE rating_sum(_)
\* the sum of the ratings of the rows that hold one
rating_sum(table) ==
    IF table = <<>> THEN 0
    ELSE (IF Head(table).rating.t = "None" THEN 0 ELSE Head(table).rating.v)
             + rating_sum(Tail(table))

\* round(avg_rating, 2) of lines 229-230 and 245, in hundredths; with fewer
\* than 8 rated rows no average lies halfway between two hundredths
avg_rating(table) ==
    LET rated == Cardinality({i \in 1..Len(table) :
                                 table[i].rating.t # "None"})
    IN  IF rated = 0 THEN 0
        ELSE (200 * rating_sum(table) + rated) \div (2 * rated)

\* what get_stats (lines 217-254) can return: the statistics of the table,
\* or the zeros of its except clause
get_stats(table) ==
    {NoStats} \cup
    {[total_prompts  |-> Len(table),
      rated_prompts  |-> Cardinality({i \in 1..Len(table) :
                                         table[i].rating.t # "None"}),
      avg_rating     |-> avg_rating(table),
      top_categories |-> top] : top \in top_categories(table)}

----------------------------------------------------------------------------
(* The page of src/app.py: one session, its buttons and their handlers.    *)
(* A handler runs to its end before the page takes the next click; the     *)
(* calls it makes on PromptEngineer and PromptDatabase are the calls       *)
(* modelled above; the service answers the requests of the page with prose *)
(* that holds no object and with text that holds no section, or fails.     *)

\* goals the user types
PageGoals == {<<"a">>, <<"Z">>}

\* ratings the selectbox of line 202 offers
PageRatings == {5, 2}

\* dict.get(key): the value of the item, None when there is none
dict_get(d, key) ==
    IF \E k \in 1..Len(d.v) : d.v[k][1] = key
    THEN d.v[CHOOSE k \in 1..Len(d.v) : d.v[k][1] = key][2]
    ELSE PyNone

\* the engineer or the store is ready for the next call of the handler
AfterCall ==
    /\ pc' = "idle"
    /\ call' = "none"
    /\ user_goal' = <<>>
    /\ similar_prompts' = <<>>
    /\ attempt' = 0
    /\ sent' = <<>>
    /\ outcomes' = <<>>
    /\ result' = NoResult
    /\ args' = NoArgs
    /\ top_k' = 0
    /\ before' = <<>>

\* Generate Prompts is pressed with a goal in the text area (lines 114-121):
\* the sidebar is drawn and the state of the last generation is reset
click_generate(goal) ==
    /\ handler.name = "none"
    /\ pc = "idle"
    /\ goal # <<>>
    /\ presses < MaxPresses
    /\ presses' = presses + 1
    /\ stats' \in get_stats(prompts_table)
    /\ session_state' = [session_state EXCEPT !.generated_prompts = <<>>,
                                              !.rated_prompts = {},
                                              !.show_rating_form = FALSE]
    /\ handler' = [NoHandler EXCEPT !.name = "analyze", !.user_goal = goal]
    /\ UNCHANGED <<pc, call, user_goal, similar_prompts, attempt, sent,
                   outcomes, result, analytics, generation>>
    /\ UNCHANGED dbvars

\* line 123
generate_calls_analyze ==
    /\ handler.name = "analyze"
    /\ call_analyze_user_intent(handler.user_goal)

\* line 123: intent_analysis is bound
generate_takes_analysis ==
    /\ handler.name = "analyze"
    /\ pc = "returned"
    /\ handler' = [handler EXCEPT !.name = "similar",
                                  !.intent_analysis = result.value]
    /\ generation' = [user_goal       |-> user_goal,
                      intent_analysis |-> result.value,
                      variations      |-> <<>>]
    /\ AfterCall
    /\ UNCHANGED <<prompts_table, now, session_state, analytics, presses,
                   stats>>

\* except Exception (lines 133-135): a call of the handler raised; the error
\* is shown and the session keeps what the handler had set until then
generate_fails ==
    /\ handler.name \in {"analyze", "similar", "variations"}
    /\ pc = "raised"
    /\ handler' = NoHandler
    /\ AfterCall
    /\ UNCHANGED <<prompts_table, now, session_state, analytics, presses,
                   stats, generation>>

\* line 124, with the default top_k of database.py line 94
generate_calls_similar ==
    /\ handler.name = "similar"
    /\ call_get_similar_prompts(handler.user_goal, 3)

\* line 124: similar_prompts is bound
generate_takes_similar ==
    /\ handler.name = "similar"
    /\ pc = "returned"
    /\ handler' = [handler EXCEPT !.name = "variations",
                                  !.similar_prompts = result.value.v]
    /\ AfterCall
    /\ UNCHANGED <<prompts_table, now, session_state, analytics, presses,
                   stats, generation>>

\* line 125
generate_calls_variations ==
    /\ handler.name = "variations"
    /\ call_generate_prompt_variations(handler.user_goal,
                                       handler.similar_prompts)

\* log_usage (database.py lines 204-215) on the tables: the INSERT into
\* analytics, or nothing when it fails, which the method only logs
log_usage(goal, prompt_count) ==
    /\ \/ analytics' = Append(analytics,
                                [user_goal               |-> goal,
                                 prompt_variations_count |-> prompt_count])
       \/ analytics' = analytics
    /\ prompts_table' = prompts_table

\* as generate_stores_session, but with log_usage writing its row into
\* table prompts
generate_stores_session_logging_prompts ==
    /\ handler.name = "variations"
    /\ pc = "returned"
    /\ session_state' =
           [session_state EXCEPT
               !.user_goal = handler.user_goal,
               !.generated_prompts = result.value.v,
               !.intent_analysis = handler.intent_analysis,
               !.similar_prompts_used = handler.similar_prompts]
    /\ generation' = [generation EXCEPT !.variations = result.value.v]
    /\ analytics' = analytics
    /\ prompts_table' =
           Append(prompts_table,
                  Row([NoArgs EXCEPT !.user_goal = handler.user_goal],
                      PyNone, now))
    /\ handler' = NoHandler
    /\ AfterCall
    /\ UNCHANGED <<now, presses, stats>>

\* lines 125-132: variations is bound, the session takes the goal, the
\* variations, the analysis and the similar prompts, and the use is logged
generate_stores_session ==
    /\ handler.name = "variations"
    /\ pc = "returned"
    /\ session_state' =
           [session_state EXCEPT
               !.user_goal = handler.user_goal,
               !.generated_prompts = result.value.v,
               !.intent_analysis = handler.intent_analysis,
               !.similar_prompts_used = handler.similar_prompts]
    /\ generation' = [generation EXCEPT !.variations = result.value.v]
    /\ log_usage(handler.user_goal, Len(result.value.v))
    /\ handler' = NoHandler
    /\ AfterCall
    /\ UNCHANGED <<now, presses, stats>>

\* the page shows the variations (line 140)
ResultsShown == session_state.generated_prompts # <<>>

\* the page shows the rating form (lines 140 and 194)
FormShown ==
    /\ ResultsShown
    /\ session_state.show_rating_form
    /\ session_state.selected_prompt.t # "None"

\* Rate is pressed on tab i (lines 181-186); the button is there for the
\* variations that are not rated
click_rate(i) ==
    /\ handler.name = "none"
    /\ pc = "idle"
    /\ ResultsShown
    /\ i \in 0..(Len(session_state.generated_prompts) - 1)
    /\ i \notin session_state.rated_prompts
    /\ stats' \in get_stats(prompts_table)
    /\ session_state' = [session_state EXCEPT !.selected_prompt = PyInt(i),
                                              !.show_rating_form = TRUE]
    /\ UNCHANGED <<pc, call, user_goal, similar_prompts, attempt, sent,
                   outcomes, result, handler, analytics, presses,
                   generation>>
    /\ UNCHANGED dbvars

\* Submit Rating is pressed on the form (lines 194-207), with the rating of
\* the selectbox and an empty feedback
click_submit(rating) ==
    /\ handler.name = "none"
    /\ pc = "idle"
    /\ FormShown
    /\ session_state.selected_prompt.v
           \in 0..(Len(session_state.generated_prompts) - 1)
    /\ presses < MaxPresses
    /\ presses' = presses + 1
    /\ stats' \in get_stats(prompts_table)
    /\ handler' = [NoHandler EXCEPT
                      !.name = "submit",
                      !.idx = session_state.selected_prompt.v,
                      !.rating = rating]
    /\ UNCHANGED <<pc, call, user_goal, similar_prompts, attempt, sent,
                   outcomes, result, session_state, analytics, generation>>
    /\ UNCHANGED dbvars

\* lines 209-216
submit_calls_save ==
    /\ handler.name = "submit"
    /\ call_save_prompt(
           [user_goal        |-> session_state.user_goal,
            generated_prompt |->
                session_state.generated_prompts[handler.idx + 1],
            rating           |-> PyInt(handler.rating),
            feedback         |-> PyStr(handler.feedback),
            category         |->
                dict_get(session_state.intent_analysis, KeyCategory),
            tags             |->
                dict_get(session_state.intent_analysis, KeyTags)])

\* as submit_after_save, but leaving the form open on the rated variation
submit_after_save_form_open ==
    /\ handler.name = "submit"
    /\ pc \in {"returned", "raised"}
    /\ IF pc = "returned"
       THEN session_state' =
                [session_state EXCEPT
                    !.rated_prompts = @ \cup {handler.idx}]
       ELSE session_state' = session_state
    /\ stats' \in get_stats(prompts_table)
    /\ handler' = NoHandler
    /\ AfterCall
    /\ UNCHANGED <<prompts_table, now, analytics, presses, generation>>

\* lines 217-223: save_prompt returned, the variation is marked as rated, the
\* form is closed and the page is drawn again; or save_prompt raised, and
\* the error is shown
submit_after_save ==
    /\ handler.name = "submit"
    /\ pc \in {"returned", "raised"}
    /\ IF pc = "returned"
       THEN session_state' =
                [session_state EXCEPT
                    !.rated_prompts = @ \cup {handler.idx},
                    !.show_rating_form = FALSE,
                    !.selected_prompt = PyNone]
       ELSE session_state' = session_state
    /\ stats' \in get_stats(prompts_table)
    /\ handler' = NoHandler
    /\ AfterCall
    /\ UNCHANGED <<prompts_table, now, analytics, presses, generation>>

PageNext ==
    \/ \E goal \in PageGoals : click_generate(goal)
    \/ generate_calls_analyze
    \/ analyze_attempt_reply(Prose)
    \/ analyze_attempt_error
    \/ generate_takes_analysis
    \/ generate_fails
    \/ generate_calls_similar
    \/ similar_attempt_error
    \/ similar_attempt_ranked
    \/ similar_attempt_fallback
    \/ generate_takes_similar
    \/ generate_calls_variations
    \/ generate_attempt_reply(Letter)
    \/ generate_attempt_error
    \/ generate_stores_session
    \/ \E i \in 0..2 : click_rate(i)
    \/ \E rating \in PageRatings : click_submit(rating)
    \/ submit_calls_save
    \/ save_attempt_commit
    \/ save_attempt_locked
    \/ save_attempt_operational_error
    \/ save_attempt_exception
    \/ submit_after_save

\* a row that an earlier session left in promptcraft.db, which
\* PromptDatabase.__init__ (database.py lines 16-20) opens as it is
EarlierRow ==
    Row([user_goal        |-> <<"a", " ", "b">>,
         generated_prompt |-> <<"p">>,
         rating           |-> PyInt(5),
         feedback         |-> PyStr(<<>>),
         category         |-> PyStr(<<"A">>),
         tags             |-> PyList(<<PyStr(<<"b">>), PyStr(<<"c">>)>>)],
        PyStr(json_dumps(PyList(<<PyStr(<<"b">>), PyStr(<<"c">>)>>))), 0)

\* a new session of the page (app.py lines 37 and 84-86) on the store of an
\* earlier session
PageInit ==
    /\ pc = "idle"
    /\ call = "none"
    /\ user_goal = <<>>
    /\ similar_prompts = <<>>
    /\ attempt = 0
    /\ sent = <<>>
    /\ outcomes = <<>>
    /\ result = NoResult
    /\ prompts_table = <<EarlierRow>>
    /\ now = 0
    /\ args = NoArgs
    /\ top_k = 0
    /\ before = <<>>
    /\ session_state = init_session_state
    /\ handler = NoHandler
    /\ analytics = <<>>
    /\ presses = 0
    /\ stats = NoStats
    /\ generation = NoGeneration

PageSpec == PageInit /\ [][PageNext]_vars

----------------------------------------------------------------------------
(* Properties of generate_prompt_variations.                               *)

\* generate_prompt_variations has ended, by a return or by an exception
GenerateEnded ==
    /\ call = "generate_prompt_variations"
    /\ pc \in {"returned", "raised"}

\* what the last attempt of the call met
LastOutcome == outcomes[Len(outcomes)]

\* the call ended in an attempt in which the service replied
GenerateEndedOnReply ==
    /\ GenerateEnded
    /\ outcomes # <<>>
    /\ LastOutcome.kind = "reply"

\* every attempt of the call met a service failure
AllAttemptsFailed ==
    /\ outcomes # <<>>
    /\ \A i \in 1..Len(outcomes) : outcomes[i].kind = "error"

\* the valid segments of the reply that ended the call
Parsed == parse_prompt_variations(LastOutcome.text)

\* the call returned a list
ReturnedList ==
    /\ pc = "returned"
    /\ result.kind = "return"
    /\ result.value.t = "list"

C2_PairwiseDistinct ==
    (GenerateEnded /\ ReturnedList) =>
        \A i, j \in 1..Len(result.value.v) :
            i # j => result.value.v[i] # result.value.v[j]

\* the fallback template of a slot, slots counted from 1
TemplateOfSlot(goal, slot) ==
    CASE slot = 1 -> fallback_comprehensive(goal)
      [] slot = 2 -> fallback_step_by_step(goal)
      [] slot = 3 -> fallback_creative(goal)

\* C3: a reply with k < 3 valid segments gives those k segments first, in
\* their parsed order, followed by the templates of slots k..2 for the goal.
C3_ParsedThenTemplates ==
    (GenerateEndedOnReply /\ Len(Parsed) < 3) =>
        /\ ReturnedList
        /\ Len(result.value.v) = 3
        /\ \A i \in 1..3 :
               result.value.v[i] =
                   IF i <= Len(Parsed) THEN Parsed[i]
                   ELSE TemplateOfSlot(user_goal, i)

\* C3 (witness): 2 different valid sections, then exactly 1 template.
C3_Witness ==
    /\ GenerateEndedOnReply
    /\ Len(Parsed) = 2
    /\ Parsed[1] # Parsed[2]
    /\ ReturnedList
    /\ result.value.v = <<Parsed[1], Parsed[2], fallback_creative(user_goal)>>

\* C4: when the service fails on every attempt, or replies with no valid
\* section, the call returns the 3 fallback templates of the goal in the
\* order comprehensive, step-by-step, creative, and does not raise.
C4_FallbackTemplatesVerbatim ==
    (GenerateEnded /\
     (AllAttemptsFailed \/ (LastOutcome.kind = "reply" /\ Parsed = <<>>))) =>
        /\ ReturnedList
        /\ result.value.v = <<fallback_comprehensive(user_goal),
                              fallback_step_by_step(user_goal),
                              fallback_creative(user_goal)>>

\* C4 (witness): the service failed on both attempts and the call returned.
C4_Witness ==
    /\ GenerateEnded
    /\ AllAttemptsFailed
    /\ Len(outcomes) = max_retries
    /\ pc = "returned"

\* C5: the call sends at most 2 requests and ends after at most 2 passes of
\* its loop; a request after the first follows a service failure of the
\* attempt before it, and a reply, whatever it holds, ends the call.
C5_BoundedRetry ==
    call = "generate_prompt_variations" =>
        /\ Len(sent) <= 2
        /\ Len(sent) = Len(outcomes)
        /\ pc = "loop" => Len(sent) < 2
        /\ \A i \in 2..Len(sent) : outcomes[i - 1].kind = "error"
        /\ \A i \in 1..Len(outcomes) :
               outcomes[i].kind = "reply" =>
                   i = Len(outcomes) /\ pc = "returned"

\* C5 (witness): a second request followed a failure, and its reply, with
\* fewer than 3 valid segments, ended the call.
C5_Witness ==
    /\ GenerateEndedOnReply
    /\ Len(sent) = 2
    /\ outcomes[1].kind = "error"
    /\ Len(Parsed) < 3

----------------------------------------------------------------------------
(* Properties of _parse_prompt_variations, seen through the variants that  *)
(* generate_prompt_variations returns.                                     *)

RECURSIVE NextMarker(_, _)
\* the index of the first section marker at or after pos, 0 if there is none
NextMarker(s, pos) ==
    IF pos > Len(s) THEN 0
    ELSE IF MarkerEnd(s, pos) # 0 THEN pos
    ELSE NextMarker(s, pos + 1)

RECURSIVE MarkerSegments(_, _)
\* for each section marker from pos on, the text that follows it up to the
\* next section marker or the end of the text
MarkerSegments(s, pos) ==
    LET m == NextMarker(s, pos)
    IN  IF m = 0 THEN <<>>
        ELSE LET e == MarkerEnd(s, m)
                 n == NextMarker(s, e)
             IN  <<SubSeq(s, e, IF n = 0 THEN Len(s) ELSE n - 1)>>
                 \o MarkerSegments(s, e)

\* the variants returned for a reply whose valid segments are segments
VariantsFor(segments) ==
    [i \in 1..3 |-> IF i <= Len(segments) THEN segments[i]
                    ELSE TemplateOfSlot(user_goal, i)]

\* C6 (as claimed): the segments are the texts that follow the section
\* markers, each up to the next marker or the end of the reply, so the
\* variants returned are those texts, stripped, the short ones dropped.
C6_SegmentRunsToNextMarker ==
    GenerateEndedOnReply =>
        result.value.v =
            VariantsFor(SelectSeq(
                SelectSeq(StripAll(MarkerSegments(LastOutcome.text, 1)),
                          NonEmpty),
                LongEnough))

AtLeast20(prompt) == Len(prompt) >= 20

AtLeast21(prompt) == Len(prompt) >= 21

\* the segments the parser extracted from the reply, stripped
Extracted == StripAll(findall(LastOutcome.text, 1))

\* C7 (as claimed): a segment is kept exactly when its stripped length is
\* at least 20.
C7_KeptFrom20 ==
    GenerateEndedOnReply =>
        result.value.v = VariantsFor(SelectSeq(Extracted, AtLeast20))

\* C7 (amended): a segment is kept exactly when its stripped length is at
\* least 21; a segment of 20 characters or fewer is dropped.
C7_KeptFrom21 ==
    GenerateEndedOnReply =>
        result.value.v = VariantsFor(SelectSeq(Extracted, AtLeast21))

\* C7 (witness): of the segments of one reply, one of 20 characters was
\* dropped and one of 21 characters was kept.
C7_Witness ==
    /\ GenerateEndedOnReply
    /\ \E i \in 1..Len(Extracted) : Len(Extracted[i]) = 20
    /\ \E i \in 1..Len(Extracted) :
           /\ Len(Extracted[i]) = 21
           /\ result.value.v[1] = Extracted[i]
    /\ \A i \in 1..3 : Len(result.value.v[i]) # 20

----------------------------------------------------------------------------
(* Properties of analyze_user_intent.                                      *)

\* analyze_user_intent has ended, by a return or by an exception
AnalyzeEnded ==
    /\ call = "analyze_user_intent"
    /\ pc \in {"returned", "raised"}

\* the dict has an item with this key
HasKey(value, key) ==
    \E k \in 1..Len(value.v) : value.v[k][1] = key

\* C8 (as claimed): every execution of analyze_user_intent returns an
\* analysis that carries the four fields category, complexity, intent and
\* tags; it never raises, never returns None and never returns a dict that
\* lacks a field.
C8_AlwaysFullAnalysis ==
    AnalyzeEnded =>
        /\ pc = "returned"
        /\ result.kind = "return"
        /\ result.value.t = "dict"
        /\ HasKey(result.value, KeyCategory)
        /\ HasKey(result.value, KeyComplexity)
        /\ HasKey(result.value, KeyIntent)
        /\ HasKey(result.value, KeyTags)

\* the reply holds a brace-delimited substring that is valid JSON
HoldsJsonObject(text) ==
    /\ BraceFound(text)
    /\ json_loads(BraceGroup(text)).ok

\* C9 (as claimed): a reply without a parseable JSON object, on an attempt
\* that is not the last, is followed by the identical request; the call
\* never ends on such a reply while attempts remain.
C9_UnparseableReplyIsRetried ==
    call = "analyze_user_intent" =>
        /\ \A i \in 1..Len(sent) : sent[i] = analysis_prompt(user_goal)
        /\ \A i \in 1..Len(outcomes) :
               (/\ outcomes[i].kind = "reply"
                /\ ~HoldsJsonObject(outcomes[i].text)
                /\ i < max_retries) =>
                   (pc = "loop" \/ Len(sent) > i)

\* the dict category "General", complexity 3, intent goal,
\* tags ["general", "prompt", "assistance"]
GeneralAnalysis(goal) ==
    [t |-> "dict",
     v |-> << <<KeyCategory,
                [t |-> "str", v |-> <<"G", "e", "n", "e", "r", "a", "l">>]>>,
              <<KeyComplexity, [t |-> "int", v |-> 3]>>,
              <<KeyIntent, [t |-> "str", v |-> goal]>>,
              <<KeyTags,
                [t |-> "list",
                 v |-> <<[t |-> "str",
                          v |-> <<"g", "e", "n", "e", "r", "a", "l">>],
                         [t |-> "str",
                          v |-> <<"p", "r", "o", "m", "p", "t">>],
                         [t |-> "str",
                          v |-> <<"a", "s", "s", "i", "s", "t", "a", "n",
                                  "c", "e">>]>>]>> >>]

\* the call ended in an attempt whose reply gave the parsed object
EndedOnParsedObject ==
    /\ outcomes # <<>>
    /\ LastOutcome.kind = "reply"
    /\ ~FenceFound(LastOutcome.text)
    /\ HoldsJsonObject(LastOutcome.text)

\* C10: when analyze_user_intent returns without having parsed an object
\* from a reply, it returns category "General", complexity 3, intent equal
\* to the goal of the call, tags ["general", "prompt", "assistance"].
C10_DefaultAnalysis ==
    (call = "analyze_user_intent" /\ pc = "returned" /\ ~EndedOnParsedObject)
        => result = [kind |-> "return", value |-> GeneralAnalysis(user_goal)]

\* C10 (witness): both replies held braces around invalid JSON, and the
\* call returned the default for a goal that is not empty.
C10_Witness ==
    /\ call = "analyze_user_intent"
    /\ pc = "returned"
    /\ Len(outcomes) = max_retries
    /\ \A i \in 1..Len(outcomes) :
           /\ outcomes[i].kind = "reply"
           /\ BraceFound(outcomes[i].text)
           /\ ~HoldsJsonObject(outcomes[i].text)
    /\ user_goal # <<>>
    /\ result.value = GeneralAnalysis(user_goal)

\* C11: in analyze_user_intent a service error on an attempt that is not
\* the last is followed by another request; the call raises only when its
\* attempts are used up, it does raise when the last attempt meets a service
\* error, and what it raises is not a returned analysis.
C11_ErrorRetriedThenRaised ==
    call = "analyze_user_intent" =>
        /\ \A i \in 1..Len(outcomes) :
               (outcomes[i].kind = "error" /\ i < max_retries) =>
                   (pc = "loop" \/ Len(sent) > i)
        /\ pc = "raised" =>
               /\ Len(outcomes) = max_retries
               /\ result.kind = "raise"
               /\ result # Returned(GeneralAnalysis(user_goal))
        /\ (Len(outcomes) = max_retries /\ LastOutcome.kind = "error") =>
               pc = "raised"

\* C11 (witness): a service error on the first attempt was retried, and the
\* error of the second attempt was raised.
C11_Witness ==
    /\ call = "analyze_user_intent"
    /\ pc = "raised"
    /\ Len(sent) = max_retries
    /\ AllAttemptsFailed

\* C12 (as claimed): when every attempt meets a service error, the
\* classifier returns its default analysis and the pipeline its 3 fallback
\* templates; neither raises.
C12_DefaultsOnServiceErrors ==
    (/\ call \in {"analyze_user_intent", "generate_prompt_variations"}
     /\ pc \in {"returned", "raised"}
     /\ AllAttemptsFailed) =>
        /\ pc = "returned"
        /\ result.kind = "return"
        /\ call = "analyze_user_intent" =>
               result.value = GeneralAnalysis(user_goal)
        /\ call = "generate_prompt_variations" =>
               result.value.v = <<fallback_comprehensive(user_goal),
                                  fallback_step_by_step(user_goal),
                                  fallback_creative(user_goal)>>

----------------------------------------------------------------------------
(* Properties of get_similar_prompts and save_prompt.                      *)

SimilarEnded ==
    /\ call = "get_similar_prompts"
    /\ pc \in {"returned", "raised"}

\* the call handed a list to its caller
SimilarReturned ==
    /\ SimilarEnded
    /\ result.kind = "return"
    /\ result.value.t = "list"

\* the row holds a rating, and the rating is 4 or more
RatedFourUp(row) == row.rating.t = "int" /\ row.rating.v >= 4

\* C13 (as claimed): for every integer top_k, on the ranked and on the
\* fallback path, the list get_similar_prompts returns holds at most top_k
\* records.
C13_LengthAtMostTopK ==
    SimilarReturned => Len(result.value.v) <= top_k

\* C14 (as claimed): a call of get_similar_prompts with a negative top_k is
\* rejected: it ends in an exception, not in a list.
C14_NegativeTopKRejected ==
    (SimilarEnded /\ top_k < 0) => pc = "raised"

\* C15: every record get_similar_prompts returns holds a rating, and the
\* rating is 4 or more, whatever the table holds.
C15_ReturnedRatingAtLeast4 ==
    SimilarReturned =>
        \A i \in 1..Len(result.value.v) :
            /\ result.value.v[i].rating.t = "int"
            /\ result.value.v[i].rating.v >= 4

\* C15 (witness): records were returned from a table that also holds a row
\* without a rating, or with a rating under 4.
C15_Witness ==
    /\ SimilarReturned
    /\ result.value.v # <<>>
    /\ \E i \in 1..Len(prompts_table) : ~RatedFourUp(prompts_table[i])

\* C16 (as claimed): on the ranked path the result is the candidates that
\* score more than 0.1, by falling score, equal scores in the order of the
\* query, cut to the first top_k: the candidate with r - 1 such candidates
\* ahead of it is at place r when r <= top_k, and is left out otherwise.
C16_RankedByScoreCutToTopK ==
    (SimilarReturned /\ LastOutcome.kind = "ranked") =>
        LET data == prompts_data(LastOutcome.rows)
            Score(i) == final_score(data[i], user_goal, LastOutcome.sims[i])
            Kept == {i \in 1..Len(data) : ScoreGreater(Score(i), Threshold)}
            Ahead(i, j) ==
                \/ ScoreGreater(Score(i), Score(j))
                \/ Score(i) = Score(j) /\ i < j
            Place(i) == 1 + Cardinality({j \in Kept : Ahead(j, i)})
            Cut == {i \in Kept : Place(i) <= top_k}
        IN  /\ Len(result.value.v) = Cardinality(Cut)
            /\ \A i \in Cut : result.value.v[Place(i)] = data[i]

\* C17: get_similar_prompts never raises; it ends with a list, which
\* is empty when every attempt failed, and a vectorizer that raises ends the
\* call with the list of the fallback search in the same attempt.
C17_NeverRaises ==
    call = "get_similar_prompts" =>
        /\ pc # "raised"
        /\ SimilarEnded =>
               /\ SimilarReturned
               /\ AllAttemptsFailed =>
                      /\ Len(outcomes) = db_max_retries
                      /\ result.value.v = <<>>
        /\ \A i \in 1..Len(outcomes) :
               outcomes[i].kind = "fallback" =>
                   /\ i = Len(outcomes)
                   /\ SimilarReturned
                   /\ \A j \in 1..Len(result.value.v) :
                          \E r \in 1..Len(outcomes[i].rows) :
                              result.value.v[j] = prompt_data(outcomes[i].rows[r])

\* C17 (witness): every attempt of a call failed, and the call returned.
C17_Witness ==
    /\ SimilarEnded
    /\ AllAttemptsFailed
    /\ Len(outcomes) = db_max_retries

\* C18: while the table holds no row rated 4 or more, no attempt of
\* get_similar_prompts reaches the vectorizer or the fallback search, and a
\* call that ends returns the empty list.
C18_NoCandidatesNoScoring ==
    (/\ call = "get_similar_prompts"
     /\ \A i \in 1..Len(prompts_table) : ~RatedFourUp(prompts_table[i])) =>
        /\ \A i \in 1..Len(outcomes) :
               outcomes[i].kind \notin {"ranked", "fallback"}
        /\ SimilarEnded => result = Returned(PyList(<<>>))

\* C18 (witness): a call on a table that holds rows, none of them rated 4 or
\* more, ended where the query selected nothing.
C18_Witness ==
    /\ SimilarEnded
    /\ prompts_table # <<>>
    /\ \A i \in 1..Len(prompts_table) : ~RatedFourUp(prompts_table[i])
    /\ LastOutcome.kind = "empty"

SaveEnded ==
    /\ call = "save_prompt"
    /\ pc \in {"returned", "raised"}

\* C20 (as claimed): a call of save_prompt ends either returning, with the
\* one new row of its arguments after the rows the table held, or raising,
\* with the table as it was.
C20_SavedOrRaised ==
    SaveEnded =>
        \/ /\ pc = "returned"
           /\ Len(prompts_table) = Len(before) + 1
           /\ SubSeq(prompts_table, 1, Len(before)) = before
           /\ prompts_table[Len(prompts_table)].user_goal = args.user_goal
           /\ prompts_table[Len(prompts_table)].generated_prompt
                  = args.generated_prompt
        \/ /\ pc = "raised"
           /\ prompts_table = before

\* C21 (as claimed): every row of the table that holds a rating holds one
\* from 1 to 5; save_prompt stores no other.
C21_StoredRatingInRange ==
    \A i \in 1..Len(prompts_table) :
        prompts_table[i].rating.t # "None" =>
            /\ prompts_table[i].rating.t = "int"
            /\ prompts_table[i].rating.v >= 1
            /\ prompts_table[i].rating.v <= 5

\* the call ended in an attempt that took the fallback search
FallbackEnded ==
    /\ SimilarReturned
    /\ outcomes # <<>>
    /\ LastOutcome.kind = "fallback"

\* the words of a text: lower-cased, split at whitespace
Words(text) == set(split(lower(text)))

\* C23 (as claimed): on the fallback path a candidate scores
\* |goal words /\ its goal's words| / max(|goal words|, |its goal's words|, 1),
\* and the result is the candidates that score more than 0, by falling
\* score, equal scores in the order of the query, cut to the first top_k.
C23_FallbackByOverlapCutToTopK ==
    FallbackEnded =>
        LET data == prompts_data(LastOutcome.rows)
            Num(i) == Cardinality(Words(user_goal) \cap Words(data[i].goal))
            Den(i) ==
                LET a == Cardinality(Words(user_goal))
                    b == Cardinality(Words(data[i].goal))
                IN  IF a >= b /\ a >= 1 THEN a ELSE IF b >= 1 THEN b ELSE 1
            Kept == {i \in 1..Len(data) : Num(i) > 0}
            Ahead(i, j) ==
                \/ Num(i) * Den(j) > Num(j) * Den(i)
                \/ Num(i) * Den(j) = Num(j) * Den(i) /\ i < j
            Place(i) == 1 + Cardinality({j \in Kept : Ahead(j, i)})
            Cut == {i \in Kept : Place(i) <= top_k}
        IN  /\ Len(result.value.v) = Cardinality(Cut)
            /\ \A i \in Cut : result.value.v[Place(i)] = data[i]

\* the call ended in an attempt in which the vectorizer gave similarities
RankedEnded ==
    /\ SimilarReturned
    /\ outcomes # <<>>
    /\ LastOutcome.kind = "ranked"

\* the records the call returned
ReturnedRecords == {result.value.v[j] : j \in 1..Len(result.value.v)}

\* candidate i of the last attempt has similarity 0 and no bonus
NoSimilarityNoBonus(i) ==
    LET data == prompt_data(LastOutcome.rows[i])
    IN  /\ LastOutcome.sims[i] = 0
        /\ ~category_matches(data, user_goal)
        /\ common_tags(data, user_goal) = 0

----------------------------------------------------------------------------
(* Properties of the page and the table prompts.                           *)

\* the rows that were in the table are still there, each at its place
KeepsRows ==
    /\ Len(prompts_table') >= Len(prompts_table)
    /\ SubSeq(prompts_table', 1, Len(prompts_table)) = prompts_table

\* C22: the table prompts is append-only. No step of the page, of the
\* engineer or of the store changes or removes a row; the table changes
\* only by one row appended in a pass of save_prompt, and save_prompt runs
\* only in the handler of Submit Rating. The steps of analyze_user_intent,
\* get_similar_prompts and its retries, generate_prompt_variations, log_usage
\* and get_stats leave the table as it is.
C22_PromptsAppendOnly ==
    [][/\ KeepsRows
       /\ prompts_table' # prompts_table =>
              /\ call = "save_prompt"
              /\ handler.name = "submit"
              /\ Len(prompts_table') = Len(prompts_table) + 1
       /\ call = "save_prompt" => handler.name = "submit"]_vars

\* C22 (witness): a generation has run to its end and logged its use, a
\* rating was submitted, and the table holds the row of the earlier session
\* unchanged and after it the row of the submission.
C22_Witness ==
    /\ handler.name = "none"
    /\ analytics # <<>>
    /\ Len(prompts_table) = 2
    /\ prompts_table[1] = EarlierRow
    /\ prompts_table[2].generated_prompt \in
           {session_state.generated_prompts[i] :
               i \in 1..Len(session_state.generated_prompts)}

\* the indices the step adds to rated_prompts
NewlyRated == session_state'.rated_prompts \ session_state.rated_prompts

\* C25: an index is added to rated_prompts only in a step that ends a
\* submission whose save_prompt appended one row to the table it found, the
\* row of that variation with the rating the user chose. This holds for
\* every sequence of outcomes of the passes of save_prompt, a locked
\* database on every pass included.
C25_RatedOnlyIfSaved ==
    [][\A i \in NewlyRated :
           /\ handler.name = "submit"
           /\ i = handler.idx
           /\ Len(prompts_table) = Len(before) + 1
           /\ SubSeq(prompts_table, 1, Len(before)) = before
           /\ prompts_table[Len(prompts_table)].generated_prompt =
                  session_state.generated_prompts[i + 1]
           /\ prompts_table[Len(prompts_table)].rating =
                  PyInt(handler.rating)]_vars

\* C26: whenever the rating form is shown, the selected index is an index of
\* the generated_prompts of the session and is not in rated_prompts, and the
\* user_goal, the intent_analysis and the generated_prompts of the session
\* are those of one generation, the last one that got as far as its
\* analysis; and the arguments of a save_prompt of the page are the goal, a
\* variation and the category of that generation.
C26_FormOnCurrentGeneration ==
    /\ FormShown =>
           /\ session_state.selected_prompt.t = "int"
           /\ session_state.selected_prompt.v
                  \in 0..(Len(session_state.generated_prompts) - 1)
           /\ session_state.selected_prompt.v
                  \notin session_state.rated_prompts
           /\ session_state.user_goal = generation.user_goal
           /\ session_state.intent_analysis = generation.intent_analysis
           /\ session_state.generated_prompts = generation.variations
    /\ (handler.name = "submit" /\ call = "save_prompt") =>
           /\ args.user_goal = generation.user_goal
           /\ \E i \in 1..Len(generation.variations) :
                  args.generated_prompt = generation.variations[i]
           /\ args.category =
                  dict_get(generation.intent_analysis, KeyCategory)
           /\ args.tags = dict_get(generation.intent_analysis, KeyTags)

\* C26 (witness): the form is shown on a variation of a second generation,
\* whose goal is not the goal of the first, after the first generation was
\* logged.
C26_Witness ==
    /\ FormShown
    /\ Len(analytics) = 2
    /\ analytics[1].user_goal # session_state.user_goal

====
